---- MODULE Spec2Model ----
(***************************************************************************)
(* Model of quantum_gates.py: the interactive quantum gate visualizer.     *)
(*                                                                         *)
(* The program builds a one- or two-qubit circuit from a gate name and an  *)
(* initial basis state (build_circuit), then runs it twice on a simulator  *)
(* (visualize): once with a save-statevector instruction, once with        *)
(* measurements of all qubits and 1024 shots.  interactive_loop drives     *)
(* both from two text prompts.                                             *)
(*                                                                         *)
(* Text is modelled as TLA+ strings; lower() and strip() are computed      *)
(* character by character.  Amplitudes are exact: a state vector is a      *)
(* tuple of Gaussian integers <<re, im>> over a common denominator         *)
(* sqrt(2)^k, so that the Hadamard gate is represented without rounding.   *)
(* Basis states are indexed little-endian (qubit 0 is the least            *)
(* significant bit) and printed with qubit 0 rightmost, the convention of  *)
(* the simulation library the program calls.                               *)
(***************************************************************************)
EXTENDS Integers, Sequences, FiniteSets, TLC

VARIABLES
    pc,           \* position of the program: which statement runs next
    caller,       \* who runs build_circuit/visualize: the loop or a direct call
    state_input,  \* interactive_loop.state_input / build_circuit's initial_state
    gate_input,   \* interactive_loop.gate_input
    gate_label,   \* interactive_loop.gate_label / build_circuit's gate_name
    circuits,     \* the circuit objects by identity: qc, qc_sv, qc_meas
    error,        \* the exception build_circuit raised in this iteration
    runs,         \* the simulator runs of this iteration, in order
    statevector,  \* visualize.statevector
    output        \* what the last step printed, with the counts it reported

vars == <<pc, caller, state_input, gate_input, gate_label, circuits, error,
          runs, statevector, output>>

----------------------------------------------------------------------------
(* Text: str.lower() and str.strip() on ASCII text.                        *)

Upper == "ABCDEFGHIJKLMNOPQRSTUVWXYZ"

LowerLetters == "abcdefghijklmnopqrstuvwxyz"

CharAt(s, i) == SubSeq(s, i, i)

\* str.lower() of one character: an upper-case letter maps to the letter at
\* the same position of the lower-case alphabet, anything else to itself.
LowerChar(c) ==
    IF \E i \in 1..Len(Upper) : CharAt(Upper, i) = c
    THEN LET i == CHOOSE j \in 1..Len(Upper) : CharAt(Upper, j) = c
         IN  CharAt(LowerLetters, i)
    ELSE c

RECURSIVE Lower(_)
Lower(s) ==
    IF Len(s) = 0 THEN ""
    ELSE LowerChar(CharAt(s, 1)) \o Lower(SubSeq(s, 2, Len(s)))

IsSpace(c) == c \in {" ", "\t"}

RECURSIVE LStrip(_)
LStrip(s) ==
    IF Len(s) > 0 /\ IsSpace(CharAt(s, 1))
    THEN LStrip(SubSeq(s, 2, Len(s)))
    ELSE s

RECURSIVE RStrip(_)
RStrip(s) ==
    IF Len(s) > 0 /\ IsSpace(CharAt(s, Len(s)))
    THEN RStrip(SubSeq(s, 1, Len(s) - 1))
    ELSE s

Strip(s) == LStrip(RStrip(s))

----------------------------------------------------------------------------
(* Circuits: QuantumCircuit(n, m) and the instructions appended to it.     *)

NoCircuit == [num_qubits |-> 0, cregs |-> <<>>, data |-> <<>>]

\* QuantumCircuit(n, m): n qubits, one classical register "c" of m bits,
\* no instruction.
QuantumCircuit(n, m) ==
    [num_qubits |-> n,
     cregs      |-> <<[name |-> "c", size |-> m]>>,
     data       |-> <<>>]

\* An instruction: its name, the qubits and the classical bits it acts on.
Instruction(name, qubits) ==
    [name |-> name, qubits |-> qubits, clbits |-> <<>>]

AppendGate(qc, name, qubits) ==
    [qc EXCEPT !.data = Append(@, Instruction(name, qubits))]

\* The result of a call that either returns a circuit or raises ValueError.
Returned(qc) == [ok |-> TRUE, qc |-> qc, error |-> "none"]

Raised(msg) == [ok |-> FALSE, qc |-> NoCircuit, error |-> msg]

PrepareNoFlip(qc, init) ==
    IF Strip(init) \in {"0", "1"} THEN Returned(qc)
    ELSE Raised("Unsupported initial state")

prepare_initial_state(qc, init) ==
    LET s == Strip(init)
    IN  IF s = "0" THEN Returned(qc)
        ELSE IF s = "1" THEN Returned(AppendGate(qc, "x", <<0>>))
        ELSE Raised("Unsupported initial state")

CnotNames == {"cnot", "cx", "controlled-not", "controlled x"}

HNames == {"h", "hadamard"}

XNames == {"x", "pauli-x", "pauli x"}

YNames == {"y", "pauli-y", "pauli y"}

ZNames == {"z", "pauli-z", "pauli z"}

\* The CNOT branch of build_circuit: control 0, target 1.
CnotSwapped(prepared) == AppendGate(prepared, "cx", <<1, 0>>)

CnotGate(prepared) == AppendGate(prepared, "cx", <<0, 1>>)

\* The if/elif chain of the single-qubit branch.
SingleGateWithIdentity(name, prepared) ==
    IF name \in HNames THEN Returned(AppendGate(prepared, "h", <<0>>))
    ELSE IF name \in XNames THEN Returned(AppendGate(prepared, "x", <<0>>))
    ELSE IF name \in YNames THEN Returned(AppendGate(prepared, "y", <<0>>))
    ELSE IF name \in ZNames THEN Returned(AppendGate(prepared, "z", <<0>>))
    ELSE IF name \in {"i", "id", "identity"}
         THEN Returned(AppendGate(prepared, "id", <<0>>))
    ELSE Raised("Unsupported gate")

\* The chain with the Hadamard branch appending the gate of the Z branch.
SingleGateHadamardAsZ(name, prepared) ==
    IF name \in HNames THEN Returned(AppendGate(prepared, "z", <<0>>))
    ELSE IF name \in XNames THEN Returned(AppendGate(prepared, "x", <<0>>))
    ELSE IF name \in YNames THEN Returned(AppendGate(prepared, "y", <<0>>))
    ELSE IF name \in ZNames THEN Returned(AppendGate(prepared, "z", <<0>>))
    ELSE Raised("Unsupported gate")

SingleGate(name, prepared) ==
    IF name \in HNames THEN Returned(AppendGate(prepared, "h", <<0>>))
    ELSE IF name \in XNames THEN Returned(AppendGate(prepared, "x", <<0>>))
    ELSE IF name \in YNames THEN Returned(AppendGate(prepared, "y", <<0>>))
    ELSE IF name \in ZNames THEN Returned(AppendGate(prepared, "z", <<0>>))
    ELSE Raised("Unsupported gate")

build_circuit(gate_name, initial_state) ==
    LET name == Lower(gate_name)
    IN  IF name \in CnotNames
        THEN LET p == prepare_initial_state(QuantumCircuit(2, 2), initial_state)
             IN  IF p.ok THEN Returned(CnotGate(p.qc)) ELSE p
        ELSE LET p == prepare_initial_state(QuantumCircuit(1, 1), initial_state)
             IN  IF p.ok THEN SingleGate(name, p.qc) ELSE p

----------------------------------------------------------------------------
(* The simulator: exact state-vector evolution.                            *)
(*                                                                         *)
(* A state vector over n qubits is [amp, k]: amp[i+1] = <<re, im>> is the  *)
(* amplitude of basis state i multiplied by sqrt(2)^k.                     *)

RECURSIVE Pow2(_)
Pow2(n) == IF n = 0 THEN 1 ELSE 2 * Pow2(n - 1)

Bit(i, q) == (i \div Pow2(q)) % 2

FlipBit(i, q) == IF Bit(i, q) = 0 THEN i + Pow2(q) ELSE i - Pow2(q)

Dim(sv) == Len(sv.amp)

Amp(sv, i) == sv.amp[i + 1]

\* The register |0...0> of n qubits.
Initialize(n) ==
    [amp |-> [j \in 1..Pow2(n) |-> IF j = 1 THEN <<1, 0>> ELSE <<0, 0>>],
     k   |-> 0]

CAdd(a, b) == <<a[1] + b[1], a[2] + b[2]>>

CSub(a, b) == <<a[1] - b[1], a[2] - b[2]>>

CNeg(a) == <<-a[1], -a[2]>>

\* i * (re + i im) = -im + i re
CMulI(a) == <<-a[2], a[1]>>

\* Pauli-X on qubit q: [[0,1],[1,0]].
GateX(sv, q) ==
    [sv EXCEPT !.amp = [j \in 1..Dim(sv) |-> Amp(sv, FlipBit(j - 1, q))]]

\* Pauli-Y on qubit q: [[0,-i],[i,0]].
GateY(sv, q) ==
    [sv EXCEPT !.amp = [j \in 1..Dim(sv) |->
        IF Bit(j - 1, q) = 1
        THEN CMulI(Amp(sv, FlipBit(j - 1, q)))
        ELSE CNeg(CMulI(Amp(sv, FlipBit(j - 1, q))))]]

\* Pauli-Z on qubit q: diag(1,-1).
GateZ(sv, q) ==
    [sv EXCEPT !.amp = [j \in 1..Dim(sv) |->
        IF Bit(j - 1, q) = 1 THEN CNeg(Amp(sv, j - 1)) ELSE Amp(sv, j - 1)]]

\* Hadamard without its 1/sqrt(2) factor.
GateHUnnormalised(sv, q) ==
    [sv EXCEPT !.amp = [j \in 1..Dim(sv) |->
        IF Bit(j - 1, q) = 0
        THEN CAdd(Amp(sv, j - 1), Amp(sv, FlipBit(j - 1, q)))
        ELSE CSub(Amp(sv, FlipBit(j - 1, q)), Amp(sv, j - 1))]]

\* Hadamard on qubit q: (1/sqrt 2) [[1,1],[1,-1]].
GateH(sv, q) ==
    [amp |-> [j \in 1..Dim(sv) |->
                IF Bit(j - 1, q) = 0
                THEN CAdd(Amp(sv, j - 1), Amp(sv, FlipBit(j - 1, q)))
                ELSE CSub(Amp(sv, FlipBit(j - 1, q)), Amp(sv, j - 1))],
     k   |-> sv.k + 1]

\* CNOT: flips the target t in the basis states whose control c is 1.
GateCX(sv, c, t) ==
    [sv EXCEPT !.amp = [j \in 1..Dim(sv) |->
        IF Bit(j - 1, c) = 1 THEN Amp(sv, FlipBit(j - 1, t))
        ELSE Amp(sv, j - 1)]]

\* One instruction applied to the state vector.  Barriers, the
\* save-statevector instruction and the final measurements leave it alone.
ApplyInstruction(sv, ins) ==
    IF ins.name = "x" THEN GateX(sv, ins.qubits[1])
    ELSE IF ins.name = "y" THEN GateY(sv, ins.qubits[1])
    ELSE IF ins.name = "z" THEN GateZ(sv, ins.qubits[1])
    ELSE IF ins.name = "h" THEN GateH(sv, ins.qubits[1])
    ELSE IF ins.name = "cx" THEN GateCX(sv, ins.qubits[1], ins.qubits[2])
    ELSE sv

\* The state after the first m instructions of the circuit.
RECURSIVE EvolvePrefix(_, _)
EvolvePrefix(qc, m) ==
    IF m = 0 THEN Initialize(qc.num_qubits)
    ELSE ApplyInstruction(EvolvePrefix(qc, m - 1), qc.data[m])

Evolve(qc) == EvolvePrefix(qc, Len(qc.data))

\* Squared magnitude of amplitude i, times 2^k.
MagSq(sv, i) == Amp(sv, i)[1] * Amp(sv, i)[1] + Amp(sv, i)[2] * Amp(sv, i)[2]

RECURSIVE SumMagSq(_, _)
SumMagSq(sv, m) == IF m = 0 THEN 0 ELSE MagSq(sv, m - 1) + SumMagSq(sv, m - 1)

RECURSIVE Gcd(_, _)
Gcd(a, b) == IF b = 0 THEN a ELSE Gcd(b, a % b)

\* The fraction num/den in lowest terms, as <<num, den>>.
Fraction(num, den) == <<num \div Gcd(num, den), den \div Gcd(num, den)>>

\* Probability of measuring basis state i: |amplitude|^2.
Probability(sv, i) == Fraction(MagSq(sv, i), Pow2(sv.k))

\* Basis state i of n qubits as text, qubit n-1 first and qubit 0 last.
RECURSIVE BitString(_, _)
BitString(i, n) ==
    IF n = 0 THEN ""
    ELSE BitString(i \div 2, n - 1) \o (IF i % 2 = 1 THEN "1" ELSE "0")

----------------------------------------------------------------------------
(* The two runs of visualize: save_statevector, and measure_all + counts.  *)

Shots == 1024

NoStatevector == [amp |-> <<>>, k |-> 0]

NoCounts == <<>>

\* copy(): the identity of the object it returns, a fresh one.
QcCopyAlias(src, fresh) == src

QcCopy(src, fresh) == fresh

\* qc_sv.save_statevector(): one more instruction, on all qubits.
SaveStatevector(qc) ==
    AppendGate(qc, "save_statevector", [q \in 1..qc.num_qubits |-> q - 1])

RECURSIVE SumSizes(_, _)
SumSizes(cregs, r) ==
    IF r = 0 THEN 0 ELSE cregs[r].size + SumSizes(cregs, r - 1)

NumClbits(qc) == SumSizes(qc.cregs, Len(qc.cregs))

\* The measurements of qubits 0..m-1 into classical bits first..first+m-1.
RECURSIVE Measurements(_, _)
Measurements(m, first) ==
    IF m = 0 THEN <<>>
    ELSE Append(Measurements(m - 1, first),
                [name |-> "measure", qubits |-> <<m - 1>>,
                 clbits |-> <<first + m - 1>>])

\* qc_meas.measure_all(): a new classical register "meas" with one bit per
\* qubit, a barrier, and the measurement of every qubit into the new
\* register.
MeasureAll(qc) ==
    [qc EXCEPT
       !.cregs = Append(@, [name |-> "meas", size |-> qc.num_qubits]),
       !.data  = (Append(@, Instruction("barrier",
                                [q \in 1..qc.num_qubits |-> q - 1]))
                  \o Measurements(qc.num_qubits, NumClbits(qc)))]

\* The classical bits after one shot whose measurements found basis state i:
\* a measured bit holds its qubit's value, any other bit stays 0.
Memory(qc, i) ==
    [c \in 0..(NumClbits(qc) - 1) |->
        IF \E m \in 1..Len(qc.data) :
              qc.data[m].name = "measure" /\ qc.data[m].clbits[1] = c
        THEN LET m == CHOOSE x \in 1..Len(qc.data) :
                        qc.data[x].name = "measure" /\ qc.data[x].clbits[1] = c
             IN  Bit(i, qc.data[m].qubits[1])
        ELSE 0]

\* The bits of one register, highest first.
RECURSIVE RegisterBits(_, _, _)
RegisterBits(mem, first, size) ==
    IF size = 0 THEN ""
    ELSE (IF mem[first + size - 1] = 1 THEN "1" ELSE "0")
         \o RegisterBits(mem, first, size - 1)

\* get_counts() key: registers r, r-1, ..., 1 separated by a space, the
\* register added last first.
RECURSIVE FormatMemory(_, _, _)
FormatMemory(mem, cregs, r) ==
    IF r = 0 THEN ""
    ELSE RegisterBits(mem, SumSizes(cregs, r - 1), cregs[r].size)
         \o (IF r > 1 THEN " " \o FormatMemory(mem, cregs, r - 1) ELSE "")

CountsKey(qc, i) == FormatMemory(Memory(qc, i), qc.cregs, Len(qc.cregs))

\* The basis states a shot can find: those of non-zero probability.
Support(sv) == {i \in 0..(Dim(sv) - 1) : MagSq(sv, i) > 0}

\* Every way to spread the shots over the keys; a key no shot found is left
\* out of the mapping.
RECURSIVE CountsOver(_, _)
CountsOver(keys, shots) ==
    IF keys = {} THEN (IF shots = 0 THEN {NoCounts} ELSE {})
    ELSE LET key == CHOOSE x \in keys : TRUE
         IN  UNION {{IF j = 0 THEN rest
                     ELSE IF rest = NoCounts THEN (key :> j)
                     ELSE (key :> j) @@ rest :
                        rest \in CountsOver(keys \ {key}, shots - j)} :
                    j \in 0..shots}

\* simulator.run(qc_meas, shots).result().get_counts(): the counts the
\* sampling can produce.
PossibleCounts(qc, shots) ==
    CountsOver({CountsKey(qc, i) : i \in Support(Evolve(qc))}, shots)

----------------------------------------------------------------------------
(* The program: interactive_loop, and direct calls of build_circuit and    *)
(* visualize.                                                              *)

\* What the user may type at the initial-state prompt.
StateInputs == {"0", "1", " 1", "0 ", "2", "", "01", "q", "Q", "quit", " Quit "}

\* What the user may type at the gate prompt.
GateInputs ==
    {"h", "hadamard", "x", "pauli-x", "pauli x", "y", "pauli-y", "pauli y",
     "z", "pauli-z", "pauli z", "cnot", "cx", "controlled-not", "controlled x",
     "H", "X", "Y", "Z", "CNOT", "Hadamard", "Pauli-X", "Pauli-Y", "Pauli-Z",
     " h ", "PAULI X", "Cx", "Controlled-NOT",
     "Identity", "identity", "i", "id", "", "foo", "pauli  x", "paulix",
     "cz", "swap", "not", "0",
     "q", "Q", "quit", "QUIT"}

\* The arguments of a direct call of build_circuit.
GateNameArgs == GateInputs \ {" h "}

InitialStateArgs == {"0", "1", " 1", "0 ", "2", "", "q"}

Quit == {"q", "quit"}

\* The table with a CNOT label that build_circuit does not know.
synonymsControlledX ==
    [key \in HNames \cup XNames \cup YNames \cup ZNames \cup CnotNames |->
        IF key \in HNames THEN "Hadamard"
        ELSE IF key \in XNames THEN "Pauli-X"
        ELSE IF key \in YNames THEN "Pauli-Y"
        ELSE IF key \in ZNames THEN "Pauli-Z"
        ELSE "Controlled-X"]

synonyms ==
    [key \in HNames \cup XNames \cup YNames \cup ZNames \cup CnotNames |->
        IF key \in HNames THEN "Hadamard"
        ELSE IF key \in XNames THEN "Pauli-X"
        ELSE IF key \in YNames THEN "Pauli-Y"
        ELSE IF key \in ZNames THEN "Pauli-Z"
        ELSE "CNOT"]

\* synonyms.get(key, default)
SynonymsGet(key, default) ==
    IF key \in DOMAIN synonyms THEN synonyms[key] ELSE default

\* gate_label as the loop computes it from the stripped gate input.
GateLabel(gate) == SynonymsGet(Lower(Strip(gate)), gate)

Printed(text) == [text |-> text, counts |-> NoCounts]

\* Where the loop goes when build_circuit raises ValueError: `continue`.
OnBuildErrorFallThrough == "visualize_sv"

OnBuildError == "state_prompt"

\* Where visualize returns to.
ReturnTo == IF caller = "interactive_loop" THEN "state_prompt" ELSE "returned"

Init ==
    /\ pc = "state_prompt"
    /\ caller = "interactive_loop"
    /\ state_input = ""
    /\ gate_input = ""
    /\ gate_label = ""
    /\ circuits = [qc |-> NoCircuit, qc_sv |-> NoCircuit, qc_meas |-> NoCircuit]
    /\ error = "none"
    /\ runs = <<>>
    /\ statevector = NoStatevector
    /\ output = Printed("Interactive Quantum Gate Visualizer with Qubit Input")

\* One pass of the loop's first prompt: the input, the quit test and the
\* test of the initial state.
PromptState(typed) ==
    /\ pc = "state_prompt"
    /\ LET s == Strip(typed)
       IN  /\ state_input' = s
           /\ IF Lower(s) \in Quit
              THEN /\ pc' = "exited"
                   /\ output' = Printed("Exiting...")
              ELSE IF s \notin {"0", "1"}
              THEN /\ pc' = "state_prompt"
                   /\ output' = Printed("Invalid input. Only '0' or '1' allowed.")
              ELSE /\ pc' = "gate_prompt"
                   /\ output' = Printed("")
    /\ error' = "none"
    /\ runs' = <<>>
    /\ UNCHANGED <<caller, gate_input, gate_label, circuits, statevector>>

\* The second prompt: the input, the quit test, the alias table and the call
\* of build_circuit with its except branch.
PromptGate(typed) ==
    /\ pc = "gate_prompt"
    /\ LET g == Strip(typed)
       IN  /\ gate_input' = g
           /\ IF Lower(g) \in Quit
              THEN /\ pc' = "exited"
                   /\ output' = Printed("Exiting...")
                   /\ UNCHANGED <<gate_label, circuits, error>>
              ELSE LET label == GateLabel(g)
                       built == build_circuit(label, state_input)
                   IN  /\ gate_label' = label
                       /\ IF built.ok
                          THEN /\ circuits' = [circuits EXCEPT !.qc = built.qc]
                               /\ pc' = "visualize_sv"
                               /\ output' = Printed("")
                               /\ UNCHANGED error
                          ELSE /\ error' = built.error
                               /\ pc' = OnBuildError
                               /\ output' = Printed("Error: " \o built.error)
                               /\ UNCHANGED circuits
    /\ UNCHANGED <<caller, state_input, runs, statevector>>

\* A direct call build_circuit(gate_label, state_input).
CallBuild ==
    /\ pc = "call"
    /\ LET built == build_circuit(gate_label, state_input)
       IN  IF built.ok
           THEN /\ circuits' = [circuits EXCEPT !.qc = built.qc]
                /\ pc' = "visualize_sv"
                /\ UNCHANGED error
           ELSE /\ error' = built.error
                /\ pc' = "raised"
                /\ UNCHANGED circuits
    /\ UNCHANGED <<caller, state_input, gate_input, gate_label, runs,
                   statevector, output>>

\* visualize, first half: the drawing of the circuit and the try block.  The
\* simulator either returns the state vector or raises, which the except
\* branch reports.
VisualizeStatevector ==
    /\ pc = "visualize_sv"
    /\ LET target == QcCopy("qc", "qc_sv")
           copied == [circuits EXCEPT ![target] = circuits.qc]
           saved  == [copied EXCEPT ![target] = SaveStatevector(@)]
       IN  /\ circuits' = saved
           /\ runs' = Append(runs, "save_statevector")
           /\ \E ok \in BOOLEAN :
                IF ok
                THEN /\ statevector' = Evolve(saved[target])
                     /\ output' =
                          IF circuits.qc.num_qubits = 1
                          THEN Printed("Bloch Sphere")
                          ELSE Printed("Note: Bloch sphere shown only for single-qubit circuits.")
                ELSE /\ statevector' = NoStatevector
                     /\ output' = Printed("Could not generate Bloch sphere for this circuit.")
    /\ pc' = "visualize_meas"
    /\ UNCHANGED <<caller, state_input, gate_input, gate_label, error>>

\* visualize, second half: the measured copy, its 1024 shots, the printed
\* counts and the return, which ends the lifetime of visualize's locals.
VisualizeMeasure ==
    /\ pc = "visualize_meas"
    /\ LET target   == QcCopy("qc", "qc_meas")
           copied   == [circuits EXCEPT ![target] = circuits.qc]
           measured == [copied EXCEPT ![target] = MeasureAll(@)]
       IN  /\ \E c \in PossibleCounts(measured[target], Shots) :
                output' = [text |-> "Measurement counts (shots=1024):",
                           counts |-> c]
           /\ circuits' = [measured EXCEPT !.qc_sv = NoCircuit,
                                           !.qc_meas = NoCircuit]
    /\ runs' = Append(runs, "measure")
    /\ statevector' = NoStatevector
    /\ pc' = ReturnTo
    /\ UNCHANGED <<caller, state_input, gate_input, gate_label, error>>

Next ==
    \/ \E typed \in StateInputs : PromptState(typed)
    \/ \E typed \in GateInputs : PromptGate(typed)
    \/ VisualizeStatevector
    \/ VisualizeMeasure

Spec == Init /\ [][Next]_vars

\* Direct calls: build_circuit on arguments drawn from the argument sets,
\* then visualize on the circuit it returned.
InitBuild ==
    /\ pc = "call"
    /\ caller = "direct"
    /\ state_input \in InitialStateArgs
    /\ gate_input = ""
    /\ gate_label \in GateNameArgs
    /\ circuits = [qc |-> NoCircuit, qc_sv |-> NoCircuit, qc_meas |-> NoCircuit]
    /\ error = "none"
    /\ runs = <<>>
    /\ statevector = NoStatevector
    /\ output = Printed("")

NextBuild ==
    \/ CallBuild
    \/ VisualizeStatevector
    \/ VisualizeMeasure

SpecBuild == InitBuild /\ [][NextBuild]_vars

----------------------------------------------------------------------------
(* Properties.                                                             *)

\* The measurement outcome distribution of a state vector over n qubits:
\* bitstring -> probability, the outcomes of probability zero left out.
ProbabilitiesDict(sv, n) ==
    [b \in {BitString(i, n) : i \in Support(sv)} |->
        Probability(sv, CHOOSE i \in Support(sv) : BitString(i, n) = b)]

One == <<1, 1>>

Half == <<1, 2>>

\* visualize holds the state vector of the circuit built from gate_label and
\* state_input.
Evolved == pc = "visualize_meas" /\ statevector # NoStatevector

XGate == Instruction("x", <<0>>)

\* C1: a one-qubit Pauli-X circuit ends in the basis state opposite to the
\* initial one: from '0' the circuit is X and the probabilities are
\* {"1": 1}; from '1' the circuit is X (the preparation) then X, and the
\* probabilities are {"0": 1}.
C1_PauliXFlipsBasisState ==
    (Evolved /\ gate_label = "Pauli-X") =>
        /\ circuits.qc.num_qubits = 1
        /\ state_input \in {"0", "1"}
        /\ state_input = "0" =>
              /\ circuits.qc.data = <<XGate>>
              /\ ProbabilitiesDict(statevector, 1) = ("1" :> One)
        /\ state_input = "1" =>
              /\ circuits.qc.data = <<XGate, XGate>>
              /\ ProbabilitiesDict(statevector, 1) = ("0" :> One)

C1_Witness ==
    /\ Evolved
    /\ gate_label = "Pauli-X"
    /\ state_input = "1"
    /\ Len(circuits.qc.data) = 2

\* C2: the two-qubit CNOT circuit ends on one bitstring: {"00": 1} from
\* initial '0' (target unflipped) and {"11": 1} from initial '1' (target
\* flipped).
C2_CnotDistribution ==
    (Evolved /\ gate_label = "CNOT") =>
        /\ circuits.qc.num_qubits = 2
        /\ state_input \in {"0", "1"}
        /\ state_input = "0" =>
              ProbabilitiesDict(statevector, 2) = ("00" :> One)
        /\ state_input = "1" =>
              ProbabilitiesDict(statevector, 2) = ("11" :> One)

C2_Witness ==
    /\ Evolved
    /\ gate_label = "CNOT"
    /\ state_input = "1"
    /\ circuits.qc.num_qubits = 2

\* C3: Hadamard on initial '0' gives the outcome distribution
\* {"0": 1/2, "1": 1/2}.
C3_HadamardHalfHalf ==
    (Evolved /\ gate_label = "Hadamard" /\ state_input = "0") =>
        /\ circuits.qc.num_qubits = 1
        /\ ProbabilitiesDict(statevector, 1) = ("0" :> Half) @@ ("1" :> Half)

C3_Witness ==
    /\ Evolved
    /\ gate_label = "Hadamard"
    /\ state_input = "0"
    /\ statevector.k = 1

\* The squared magnitudes of the state vector sum to 1.
Normalised(sv) == SumMagSq(sv, Dim(sv)) = Pow2(sv.k)

\* The probabilities of the outcomes, as fractions over 2^k, sum to 1.
ProbabilitiesSumToOne(sv) ==
    LET n    == CHOOSE m \in 0..Dim(sv) : Pow2(m) = Dim(sv)
        dict == ProbabilitiesDict(sv, n)
        Scaled(b) == dict[b][1] * (Pow2(sv.k) \div dict[b][2])
        RECURSIVE Sum(_)
        Sum(S) == IF S = {} THEN 0
                  ELSE LET b == CHOOSE x \in S : TRUE
                       IN  Scaled(b) + Sum(S \ {b})
    IN  Sum(DOMAIN dict) = Pow2(sv.k)

\* C4: the state vector is normalised after every operation: in the initial
\* state, after the preparation X and after the selected gate, for every
\* circuit the program builds, and the outcome probabilities sum to 1.
C4_NormalisedAfterEveryOperation ==
    /\ \A m \in 0..Len(circuits.qc.data) :
          /\ Normalised(EvolvePrefix(circuits.qc, m))
          /\ ProbabilitiesSumToOne(EvolvePrefix(circuits.qc, m))
    /\ statevector # NoStatevector =>
          /\ Normalised(statevector)
          /\ ProbabilitiesSumToOne(statevector)

C4_Witness ==
    /\ Evolved
    /\ gate_label = "Hadamard"
    /\ state_input = "1"
    /\ Len(circuits.qc.data) = 2
    /\ statevector.k = 1

\* visualize has returned and reported the counts of the circuit built from
\* gate_label and state_input.
Measured == runs = <<"save_statevector", "measure">> /\ output.counts # NoCounts

\* C5: when the final state is a single basis state, the counts have one
\* entry, keyed by that state's bitstring of length n, with count 1024; for
\* Pauli-X on initial '0' the reported counts are {"1": 1024}.
C5_DeterministicCounts ==
    Measured =>
        LET sv == Evolve(circuits.qc)
            n  == circuits.qc.num_qubits
        IN  /\ Cardinality(Support(sv)) = 1 =>
                 \E i \in Support(sv) :
                    /\ Len(BitString(i, n)) = n
                    /\ output.counts = (BitString(i, n) :> Shots)
            /\ (gate_label = "Pauli-X" /\ state_input = "0") =>
                 output.counts = ("1" :> 1024)

CanonicalNames ==
    {"Identity", "Pauli-X", "Pauli-Y", "Pauli-Z", "Hadamard", "CNOT"}

AcceptedNames ==
    {"h", "hadamard", "x", "pauli-x", "pauli x", "y", "pauli-y", "pauli y",
     "z", "pauli-z", "pauli z", "cnot", "cx", "controlled-not", "controlled x"}

\* build_circuit was called with a valid initial state and has returned or
\* raised.
BuildCalled == pc # "call" /\ Strip(state_input) \in {"0", "1"}

C7_FailFastBeforeEvolution ==
    /\ error # "none" => pc = "state_prompt" /\ runs = <<>>
    /\ (runs # <<>> \/ pc \in {"visualize_sv", "visualize_meas"}) =>
          /\ error = "none"
          /\ build_circuit(gate_label, state_input).ok
          /\ circuits.qc = build_circuit(gate_label, state_input).qc
    /\ runs \in {<<>>, <<"save_statevector">>, <<"save_statevector", "measure">>}
    /\ pc = "visualize_sv" => runs = <<>>
    /\ pc = "visualize_meas" => runs = <<"save_statevector">>

C7_Witness ==
    /\ error = "Unsupported gate"
    /\ pc = "state_prompt"
    /\ runs = <<>>
    /\ circuits.qc # NoCircuit

\* C8: a circuit that build_circuit returned has one of two shapes: one
\* qubit, the preparation of the initial bit, one single-qubit gate on
\* qubit 0; or two qubits, the preparation on qubit 0, one CNOT with control
\* 0 and target 1.
C8_TwoCircuitShapes ==
    circuits.qc # NoCircuit =>
        LET setup == IF Strip(state_input) = "1" THEN <<XGate>> ELSE <<>>
            qc    == circuits.qc
        IN  /\ Strip(state_input) \in {"0", "1"}
            /\ \/ /\ qc.num_qubits = 1
                  /\ \E g \in {"h", "x", "y", "z"} :
                        qc.data = setup \o <<Instruction(g, <<0>>)>>
               \/ /\ qc.num_qubits = 2
                  /\ qc.data = setup \o <<Instruction("cx", <<0, 1>>)>>

C8_Witness ==
    /\ pc = "visualize_sv"
    /\ circuits.qc.num_qubits = 2
    /\ state_input = " 1"
    /\ Len(circuits.qc.data) = 2

\* C9: visualize leaves the circuit it is given unchanged: no step of
\* visualize changes qc; the save-statevector instruction and the
\* measurements go to copies.
C9_VisualizeLeavesCircuitUnchanged ==
    [][(pc \in {"visualize_sv", "visualize_meas"})
          => (circuits.qc)' = (circuits.qc)]_vars

C9_Witness ==
    /\ Measured
    /\ pc = "state_prompt"
    /\ circuits.qc = build_circuit(gate_label, state_input).qc
    /\ circuits.qc.num_qubits = 2
    /\ Len(circuits.qc.data) = 2

\* The gate each key of the alias table names.
NamedGate(key) ==
    IF key \in {"h", "hadamard"} THEN "h"
    ELSE IF key \in {"x", "pauli-x", "pauli x"} THEN "x"
    ELSE IF key \in {"y", "pauli-y", "pauli y"} THEN "y"
    ELSE IF key \in {"z", "pauli-z", "pauli z"} THEN "z"
    ELSE "cx"

\* The label of every key is accepted by build_circuit and builds the gate
\* the key names.
LabelsAccepted ==
    \A key \in DOMAIN synonyms : \A s \in {"0", "1"} :
        LET built == build_circuit(synonyms[key], s)
        IN  /\ built.ok
            /\ built.qc.data[Len(built.qc.data)].name = NamedGate(key)

\* The loop has just handled gate_input: it built a circuit, reported the
\* error of build_circuit, or left at the gate prompt.
GateHandled ==
    \/ pc = "visualize_sv"
    \/ pc = "state_prompt" /\ error # "none"
    \/ pc = "exited" /\ state_input \in {"0", "1"}

IsKey(gate) == Lower(gate) \in DOMAIN synonyms

\* C10 as stated: the labels of the alias table are accepted by
\* build_circuit; every gate input that is not a key is passed through
\* unchanged and rejected by build_circuit with ValueError; an input reaches
\* visualize exactly when it is a key.
C10_AliasTableAgrees ==
    /\ LabelsAccepted
    /\ GateHandled =>
          /\ ~IsKey(gate_input) =>
                /\ gate_label = gate_input
                /\ error = "Unsupported gate"
          /\ pc = "visualize_sv" <=> IsKey(gate_input)

\* C10 as amended: the same, for the gate inputs that are not the quit
\* commands q and quit; on a quit command the loop exits and build_circuit
\* is not called.
C10_AliasTableAgreesExceptQuit ==
    /\ LabelsAccepted
    /\ GateHandled =>
          /\ (~IsKey(gate_input) /\ Lower(gate_input) \notin {"q", "quit"}) =>
                /\ gate_label = gate_input
                /\ error = "Unsupported gate"
                /\ pc = "state_prompt"
          /\ Lower(gate_input) \in {"q", "quit"} =>
                /\ pc = "exited"
                /\ error = "none"
          /\ pc = "visualize_sv" <=> IsKey(gate_input)
          /\ pc = "visualize_sv" =>
                /\ gate_label = synonyms[Lower(gate_input)]
                /\ circuits.qc.data[Len(circuits.qc.data)].name
                      = NamedGate(Lower(gate_input))

C10_Witness ==
    /\ pc = "state_prompt"
    /\ error = "Unsupported gate"
    /\ gate_input = "Identity"
    /\ gate_label = "Identity"
    /\ runs = <<>>

====
